---- MODULE Spec2Model ----
(***************************************************************************)
(* Knowledge-graph memory store of echo_mcp_server/server.py               *)
(* (class Neo4jMemory).  The store is the content of the graph engine:     *)
(* nodes carrying the label Memory with the properties name, type and      *)
(* observations, and typed directed edges between nodes.  Every repository *)
(* method issues Cypher statements; each statement is modelled row by row  *)
(* as the engine evaluates it (UNWIND, MATCH, MERGE, SET, DELETE).         *)
(*                                                                         *)
(* Nodes and edges carry engine identities (id), so that two nodes with    *)
(* the same name, or two edges with the same triple, are different things  *)
(* the store could hold.  Identities are opaque to the program; the model  *)
(* numbers the nodes of one name, and the edges of one triple, 1, 2, ...   *)
(*                                                                         *)
(* call and ret are the repository call that has just been made and what   *)
(* it returned; out and exc are what the tool function returned to its     *)
(* caller and the exception raised inside its try block; flight holds, per *)
(* caller, the create_relations call whose statement loop is under way.    *)
(* memory is the construction of the Neo4jMemory object (the index query   *)
(* it issues), server is the run of MCPServer (its arguments, the files it *)
(* finds and the transport it ends up serving on).                         *)
(*                                                                         *)
(* Abstractions: a name is the sequence of its words (the full-text        *)
(* analyzer splits on white space), all words are lower case, a type and   *)
(* an observation are single words.                                        *)
(***************************************************************************)
EXTENDS Integers, Sequences, FiniteSets, TLC

VARIABLES nodes, rels, call, ret, out, exc, flight, memory, server

vars == <<nodes, rels, call, ret, out, exc, flight, memory, server>>

\* what the tool layer and the statement loop of create_relations add to the
\* state of the repository
dispatch == <<out, exc, flight>>

\* the host process: the construction of the store and the run of the server
host == <<memory, server>>

(***************************************************************************)
(* Bounds and input domains                                                *)
(***************************************************************************)
MaxBatch == 2
MaxLen == 2
MaxNodes == 3
MaxEdges == 2

Names == {<<"ann">>, <<"ann", "lee">>}
QueryNames == Names \cup {<<"lee">>}
Types == {"person", "city"}
Obs == {"x", "y"}
RelTypes == {"knows", "likes"}

SeqsUpTo(S, n) == UNION {[1..k -> S] : k \in 0..n}
NonEmptySeqsUpTo(S, n) == UNION {[1..k -> S] : k \in 1..n}

(***************************************************************************)
(* Data model (pydantic classes)                                           *)
(***************************************************************************)
Entity(N, T, O) == [name : N, type : T, observations : O]
Relation(N, RT) == [source : N, target : N, relationType : RT]
ObservationAddition(N, O) == [entityName : N, contents : O]
ObservationDeletion(N, O) == [entityName : N, observations : O]
KnowledgeGraph(es, rs) == [entities |-> es, relations |-> rs]

NoneValue == "None"

(***************************************************************************)
(* Generic helpers                                                         *)
(***************************************************************************)
Range(s) == {s[i] : i \in DOMAIN s}

Min(S) == CHOOSE x \in S : \A y \in S : x <= y

\* The smallest number that is not in use.
FreshNumber(used) == Min((1..(Cardinality(used) + 1)) \ used)

\* The elements of a finite set as a list, in some order
RECURSIVE SetToSeq(_)
SetToSeq(S) ==
    IF S = {} THEN <<>>
    ELSE LET x == CHOOSE y \in S : TRUE IN <<x>> \o SetToSeq(S \ {x})

\* [o IN list WHERE NOT o IN excl]
RECURSIVE FilterNotIn(_, _)
FilterNotIn(list, excl) ==
    IF list = <<>> THEN <<>>
    ELSE LET rest == FilterNotIn(Tail(list), excl)
         IN IF Head(list) \in excl THEN rest ELSE <<Head(list)>> \o rest

\* collect(distinct ...): first occurrences, in order
RECURSIVE Distinct(_)
Distinct(list) ==
    IF list = <<>> THEN <<>>
    ELSE LET front == Distinct(SubSeq(list, 1, Len(list) - 1))
             last == list[Len(list)]
         IN IF last \in Range(front) THEN front ELSE Append(front, last)

NoRepeat(list) == \A i, j \in DOMAIN list : list[i] = list[j] => i = j

(***************************************************************************)
(* Cypher pattern matching                                                 *)
(***************************************************************************)
\* MATCH (e:Memory { name: name })
MatchMemory(N, name) == {n \in N : "Memory" \in n.labels /\ n.name = name}

NodeIds(N) == {n.id : n \in N}

FreshNodeId(N, name) ==
    <<name, FreshNumber({n.id[2] : n \in {m \in N : m.name = name}})>>

FreshEdgeId(R, from, to, type) ==
    FreshNumber({r.id : r \in {e \in R : e.from = from /\ e.to = to
                                           /\ e.type = type}})

(***************************************************************************)
(* create_entities                                                         *)
(***************************************************************************)
\* What CREATE (e:Memory { name: entity.name }) would do in place of MERGE
MergeAlwaysCreate(N, name) ==
    N \cup {[id |-> FreshNodeId(N, name), name |-> name, type |-> "",
             observations |-> <<>>, labels |-> {"Memory"}]}

\* MERGE (e:Memory { name: entity.name }): a node is created only when no
\* node matches; the created node has the name and no other property yet
\* (the SET of the same row fills type and observations).
MergeMemory(N, name) ==
    IF MatchMemory(N, name) # {} THEN N
    ELSE N \cup {[id |-> FreshNodeId(N, name), name |-> name, type |-> "",
                  observations |-> <<>>, labels |-> {"Memory"}]}

\* What a SET that merged the supplied observations into the list would do
SetEntityAppending(n, entity) ==
    [n EXCEPT !.type = entity.type,
              !.observations = @ \o entity.observations,
              !.labels = @ \cup {entity.type}]

\* SET e += entity {.type, .observations}   SET e:$(entity.type)
\* (a label is added, the labels the node already has stay)
SetEntity(n, entity) ==
    [n EXCEPT !.type = entity.type,
              !.observations = entity.observations,
              !.labels = @ \cup {entity.type}]

\* What a row that replaced the matched node by a new one would do: the new
\* node holds the supplied values, the edges of the old one lose their end
CreateEntityRowReplacing(N, entity) ==
    {n \in N : n \notin MatchMemory(N, entity.name)}
    \cup {[id |-> FreshNodeId(N, entity.name), name |-> entity.name,
           type |-> entity.type, observations |-> entity.observations,
           labels |-> {"Memory", entity.type}]}

\* one row of UNWIND $entities
CreateEntityRow(N, entity) ==
    LET merged == MergeMemory(N, entity.name)
        hit == MatchMemory(merged, entity.name)
    IN {IF n \in hit THEN SetEntity(n, entity) ELSE n : n \in merged}

RECURSIVE CreateEntitiesQuery(_, _)
CreateEntitiesQuery(N, entities) ==
    IF entities = <<>> THEN N
    ELSE CreateEntitiesQuery(CreateEntityRow(N, Head(entities)), Tail(entities))

CreateEntities(batches) ==
    \E entities \in batches :
        LET after == CreateEntitiesQuery(nodes, entities)
        IN /\ Cardinality(after) <= MaxNodes
           /\ nodes' = after
           /\ rels' = rels
           /\ call' = [op |-> "create_entities", args |-> entities]
           /\ ret' = entities

(***************************************************************************)
(* delete_entities                                                         *)
(***************************************************************************)
\* What a delete that left the edges of the node behind would do
DeleteKeepEdges(g, name) ==
    [nodes |-> g.nodes \ MatchMemory(g.nodes, name), rels |-> g.rels]

\* one row of UNWIND $entities: MATCH (e:Memory { name: name }) DETACH DELETE e
DetachDelete(g, name) ==
    LET hit == NodeIds(MatchMemory(g.nodes, name))
    IN [nodes |-> {n \in g.nodes : n.id \notin hit},
        rels |-> {r \in g.rels : r.from \notin hit /\ r.to \notin hit}]

RECURSIVE DeleteEntitiesQuery(_, _)
DeleteEntitiesQuery(g, names) ==
    IF names = <<>> THEN g
    ELSE DeleteEntitiesQuery(DetachDelete(g, Head(names)), Tail(names))

DeleteEntities(batches) ==
    \E names \in batches :
        LET after == DeleteEntitiesQuery([nodes |-> nodes, rels |-> rels], names)
        IN /\ nodes' = after.nodes
           /\ rels' = after.rels
           /\ call' = [op |-> "delete_entities", args |-> names]
           /\ ret' = NoneValue

(***************************************************************************)
(* create_relations                                                        *)
(***************************************************************************)
\* MATCH (from:Memory),(to:Memory) WHERE from.name = relation.source
\*                                 AND to.name = relation.target
MatchEndpoints(N, relation) ==
    {<<f.id, t.id>> : f \in MatchMemory(N, relation.source),
                      t \in MatchMemory(N, relation.target)}

\* What CREATE (from)-[r:...]->(to) would do in place of MERGE
CreateEdge(R, pair, type) ==
    R \cup {[id |-> FreshEdgeId(R, pair[1], pair[2], type), from |-> pair[1], to |-> pair[2],
             type |-> type]}

\* MERGE (from)-[r:$(relation.relationType)]->(to) for one matched pair
MergeEdge(R, pair, type) ==
    IF \E r \in R : r.from = pair[1] /\ r.to = pair[2] /\ r.type = type
    THEN R
    ELSE R \cup {[id |-> FreshEdgeId(R, pair[1], pair[2], type), from |-> pair[1], to |-> pair[2],
                  type |-> type]}

RECURSIVE MergeEdges(_, _, _)
MergeEdges(R, pairs, type) ==
    IF pairs = {} THEN R
    ELSE LET p == CHOOSE q \in pairs : TRUE
         IN MergeEdges(MergeEdge(R, p, type), pairs \ {p}, type)

\* What a MERGE of the whole pattern (from)-[r]->(to) would do: it creates
\* the endpoints that are missing
CreateRelationRowMergingPattern(g, relation) ==
    LET N == MergeMemory(MergeMemory(g.nodes, relation.source), relation.target)
    IN [nodes |-> N,
        rels |-> MergeEdges(g.rels, MatchEndpoints(N, relation),
                            relation.relationType)]

\* one row of UNWIND $relations: the endpoints are matched, only the edge is
\* merged
CreateRelationRow(g, relation) ==
    [nodes |-> g.nodes,
     rels |-> MergeEdges(g.rels, MatchEndpoints(g.nodes, relation),
                         relation.relationType)]

\* one execute_query
RECURSIVE CreateRelationsQuery(_, _)
CreateRelationsQuery(g, relations) ==
    IF relations = <<>> THEN g
    ELSE CreateRelationsQuery(CreateRelationRow(g, Head(relations)),
                              Tail(relations))

\* for relation in relations: the statement is issued once per element, each
\* time with the whole list as $relations
RECURSIVE CreateRelationsLoop(_, _, _)
CreateRelationsLoop(g, relations, todo) ==
    IF todo = 0 THEN g
    ELSE CreateRelationsLoop(CreateRelationsQuery(g, relations), relations,
                             todo - 1)

CreateRelations(batches) ==
    \E relations \in batches :
        LET after == CreateRelationsLoop([nodes |-> nodes, rels |-> rels],
                                         relations, Len(relations))
        IN /\ Cardinality(after.rels) <= MaxEdges
           /\ Cardinality(after.nodes) <= MaxNodes
           /\ rels' = after.rels
           /\ nodes' = after.nodes
           /\ call' = [op |-> "create_relations", args |-> relations]
           /\ ret' = relations

(***************************************************************************)
(* add_observations                                                        *)
(***************************************************************************)
NodeById(N, id) == CHOOSE n \in N : n.id = id

SetObservations(N, id, list) ==
    {IF n.id = id THEN [n EXCEPT !.observations = list] ELSE n : n \in N}

\* UNWIND $observations as obs  MATCH (e:Memory { name: obs.entityName }):
\* one row per addition and matched node
RECURSIVE AdditionRows(_, _)
AdditionRows(N, observations) ==
    IF observations = <<>> THEN <<>>
    ELSE LET obs == Head(observations)
             ids == SetToSeq(NodeIds(MatchMemory(N, obs.entityName)))
         IN [i \in DOMAIN ids |-> [id |-> ids[i], contents |-> obs.contents]]
            \o AdditionRows(N, Tail(observations))

\* What the WITH would yield without its WHERE
NewObservationsUnfiltered(n, contents) == contents

\* WITH e, [o in obs.contents WHERE NOT o IN e.observations] as new

NewObservations(n, contents) == FilterNotIn(contents, Range(n.observations))

\* SET e.observations = coalesce(e.observations,[]) + new   RETURN e.name, new
\* The WITH reads the property that the SET writes.  When the engine runs the
\* statement eagerly every row's `new` is computed on the lists as they were
\* before the statement (N0); when it pipelines the rows, a row sees what the
\* rows before it have written.  The SET itself always reads the current list.
RECURSIVE AddObservationsRows(_, _, _, _)
AddObservationsRows(N, N0, rows, eager) ==
    IF rows = <<>> THEN [nodes |-> N, records |-> <<>>]
    ELSE LET row == Head(rows)
             cur == NodeById(N, row.id)
             seen == IF eager THEN NodeById(N0, row.id) ELSE cur
             new == NewObservations(seen, row.contents)
             rest == AddObservationsRows(
                         SetObservations(N, row.id, cur.observations \o new),
                         N0, Tail(rows), eager)
         IN [nodes |-> rest.nodes,
             records |-> <<[entityName |-> cur.name, addedObservations |-> new]>>
                         \o rest.records]

AddObservationsQuery(N, observations, eager) ==
    AddObservationsRows(N, N, AdditionRows(N, observations), eager)

AddObservations(batches) ==
    \E observations \in batches, eager \in BOOLEAN :
        LET after == AddObservationsQuery(nodes, observations, eager)
        IN /\ nodes' = after.nodes
           /\ rels' = rels
           /\ call' = [op |-> "add_observations", args |-> observations]
           /\ ret' = after.records

(***************************************************************************)
(* delete_observations                                                     *)
(***************************************************************************)
\* the list without the first occurrence of o
RECURSIVE RemoveFirst(_, _)
RemoveFirst(list, o) ==
    IF list = <<>> THEN <<>>
    ELSE IF Head(list) = o THEN Tail(list)
    ELSE <<Head(list)>> \o RemoveFirst(Tail(list), o)

RECURSIVE RemoveEachOnce(_, _)
RemoveEachOnce(list, listed) ==
    IF listed = <<>> THEN list
    ELSE RemoveEachOnce(RemoveFirst(list, Head(listed)), Tail(listed))

\* What a SET that took one occurrence away per listed string would do
DeleteObservationsRowOnce(N, d) ==
    LET hit == MatchMemory(N, d.entityName)
    IN {IF n \in hit
        THEN [n EXCEPT !.observations = RemoveEachOnce(@, d.observations)]
        ELSE n : n \in N}

\* What the SET would do with WHERE o IN d.observations
DeleteObservationsRowKeepingListed(N, d) ==
    LET hit == MatchMemory(N, d.entityName)
    IN {IF n \in hit
        THEN [n EXCEPT !.observations =
                  FilterNotIn(@, Range(@) \ Range(d.observations))]
        ELSE n : n \in N}

\* one row of UNWIND $deletions: MATCH (e:Memory { name: d.entityName })
\* SET e.observations = [o in coalesce(e.observations,[])
\*                       WHERE NOT o IN d.observations]
DeleteObservationsRow(N, d) ==
    LET hit == MatchMemory(N, d.entityName)
    IN {IF n \in hit
        THEN [n EXCEPT !.observations = FilterNotIn(@, Range(d.observations))]
        ELSE n : n \in N}

RECURSIVE DeleteObservationsQuery(_, _)
DeleteObservationsQuery(N, deletions) ==
    IF deletions = <<>> THEN N
    ELSE DeleteObservationsQuery(DeleteObservationsRow(N, Head(deletions)),
                                 Tail(deletions))

DeleteObservations(batches) ==
    \E deletions \in batches :
        /\ nodes' = DeleteObservationsQuery(nodes, deletions)
        /\ rels' = rels
        /\ call' = [op |-> "delete_observations", args |-> deletions]
        /\ ret' = NoneValue

(***************************************************************************)
(* delete_relations                                                        *)
(***************************************************************************)
\* one row of UNWIND $relations:
\* MATCH (source:Memory)-[r:$(relation.relationType)]->(target:Memory)
\* WHERE source.name = relation.source AND target.name = relation.target
\* DELETE r
DeleteRelationRow(N, R, relation) ==
    LET src == NodeIds(MatchMemory(N, relation.source))
        tgt == NodeIds(MatchMemory(N, relation.target))
    IN {r \in R : ~(r.from \in src /\ r.to \in tgt
                    /\ r.type = relation.relationType)}

RECURSIVE DeleteRelationsQuery(_, _, _)
DeleteRelationsQuery(N, R, relations) ==
    IF relations = <<>> THEN R
    ELSE DeleteRelationsQuery(N, DeleteRelationRow(N, R, Head(relations)),
                              Tail(relations))

DeleteRelations(batches) ==
    \E relations \in batches :
        /\ rels' = DeleteRelationsQuery(nodes, rels, relations)
        /\ nodes' = nodes
        /\ call' = [op |-> "delete_relations", args |-> relations]
        /\ ret' = NoneValue

(***************************************************************************)
(* load_graph and the read operations                                      *)
(***************************************************************************)
\* The index 'search' covers the properties name, type and observations of
\* the Memory nodes.  A property is indexed as the words the analyzer finds in
\* it; the analyzer drops punctuation, so that the name "-ann" is indexed as
\* the word "ann".
Term(w) == IF w = "-ann" THEN "ann" ELSE w

NameTerms(n) == {Term(w) : w \in Range(n.name)}

DocTerms(n, field) ==
    IF field = "name" THEN NameTerms(n)
    ELSE NameTerms(n) \cup {Term(n.type)}
                      \cup {Term(o) : o \in Range(n.observations)}

\* The query parser reads a word that starts with "-" as a prohibited clause
\* and every other word as an optional clause.
Prohibited(w) == w = "-ann"

\* CALL db.index.fulltext.queryNodes('search', $filter).  "*" matches every
\* indexed node.  A query of words matches the nodes that hold one of the
\* optional words and none of the prohibited words, in the named field
\* ("name: (w1 w2 ...)") or in any indexed field (no field given).
MatchAll == [kind |-> "all", field |-> "any", words |-> {}]

Matches(n, filter) ==
    LET doc == DocTerms(n, filter.field)
        should == {Term(w) : w \in {v \in filter.words : ~Prohibited(v)}}
        mustNot == {Term(w) : w \in {v \in filter.words : Prohibited(v)}}
    IN should \cap doc # {} /\ mustNot \cap doc = {}

QueryNodes(N, filter) ==
    {n \in N : /\ "Memory" \in n.labels
               /\ \/ filter.kind = "all"
                  \/ filter.kind = "query" /\ Matches(n, filter)}

\* OPTIONAL MATCH (entity)-[r]-(other): one row per incident edge, in either
\* direction, or one row with r = null when there is none
NullEdge == [id |-> 0, from |-> <<>>, to |-> <<>>, type |-> ""]

\* What the directed pattern (entity)-[r]->(other) would match
IncidentOutgoingOnly(R, id) == {r \in R : r.from = id}

Incident(R, id) == {r \in R : r.from = id \/ r.to = id}

RECURSIVE GraphRows(_, _, _)
GraphRows(N, R, ids) ==
    IF ids = <<>> THEN <<>>
    ELSE LET id == Head(ids)
             es == SetToSeq(Incident(R, id))
         IN (IF es = <<>> THEN <<[entity |-> id, r |-> NullEdge]>>
             ELSE [i \in DOMAIN es |-> [entity |-> id, r |-> es[i]]])
            \o GraphRows(N, R, Tail(ids))

\* What a map without the observations entry would give: the Entity is built
\* with node.get('observations', []), the default
NodeMapWithoutObservations(N, row) ==
    LET n == NodeById(N, row.entity)
    IN [name |-> n.name, type |-> n.type, observations |-> <<>>]

\* {name: entity.name, type: entity.type, observations: entity.observations}
NodeMap(N, row) ==
    LET n == NodeById(N, row.entity)
    IN [name |-> n.name, type |-> n.type, observations |-> n.observations]

\* {source: startNode(r).name, target: endNode(r).name, relationType: type(r)};
\* every entry is null for the null edge (null is written as the empty value)
RelMap(N, R, row) ==
    IF row.r = NullEdge
    THEN [source |-> <<>>, target |-> <<>>, relationType |-> ""]
    ELSE [source |-> NodeById(N, row.r.from).name,
          target |-> NodeById(N, row.r.to).name,
          relationType |-> row.r.type]

RECURSIVE SelectSeq2(_, _)
SelectSeq2(list, keep) ==
    IF list = <<>> THEN <<>>
    ELSE (IF Head(list) \in keep THEN <<Head(list)>> ELSE <<>>)
         \o SelectSeq2(Tail(list), keep)

\* What a result that only left out the rows without an edge would hold: the
\* relations are kept when rel.get('relationType') is set, whatever their
\* source and target
load_graph_keeping_nameless_ends(N, R, filter) ==
    LET rows == GraphRows(N, R, SetToSeq(NodeIds(QueryNodes(N, filter))))
        nodeMaps == Distinct([i \in DOMAIN rows |-> NodeMap(N, rows[i])])
        relMaps == Distinct([i \in DOMAIN rows |-> RelMap(N, R, rows[i])])
        entities == SelectSeq2(nodeMaps, {m \in Range(nodeMaps) : m.name # <<>>})
        relations == SelectSeq2(relMaps,
                        {m \in Range(relMaps) : m.relationType # ""})
    IN KnowledgeGraph(entities, relations)

load_graph(N, R, filter) ==
    LET rows == GraphRows(N, R, SetToSeq(NodeIds(QueryNodes(N, filter))))
        nodeMaps == Distinct([i \in DOMAIN rows |-> NodeMap(N, rows[i])])
        relMaps == Distinct([i \in DOMAIN rows |-> RelMap(N, R, rows[i])])
        \* for node in nodes if node.get('name')
        entities == SelectSeq2(nodeMaps, {m \in Range(nodeMaps) : m.name # <<>>})
        \* for rel in rels if rel.get('source') and rel.get('target')
        \*                    and rel.get('relationType')
        relations == SelectSeq2(relMaps,
                        {m \in Range(relMaps) : /\ m.source # <<>>
                                                /\ m.target # <<>>
                                                /\ m.relationType # ""})
    IN KnowledgeGraph(entities, relations)

read_graph(N, R) == load_graph(N, R, MatchAll)

\* " ".join(names): the words of all names, in order
RECURSIVE JoinNames(_)
JoinNames(names) ==
    IF names = <<>> THEN <<>> ELSE Head(names) \o JoinNames(Tail(names))

\* "name: (" + " ".join(names) + ")"
NameFilter(names) ==
    [kind |-> "query", field |-> "name", words |-> Range(JoinNames(names))]

find_nodes(N, R, names) == load_graph(N, R, NameFilter(names))

\* load_graph(query): the query string is the filter, its words are looked up
\* in every indexed field
QueryFilter(query) == [kind |-> "query", field |-> "any", words |-> Range(query)]

search_nodes(N, R, query) == load_graph(N, R, QueryFilter(query))

\* What a read that removed the nameless nodes from the store, instead of
\* leaving them out of its result, would do
ReadGraphPruning ==
    LET kept == {n \in nodes : n.name # <<>>}
    IN /\ ret' = read_graph(nodes, rels)
       /\ call' = [op |-> "read_graph", args |-> <<>>]
       /\ nodes' = kept
       /\ rels' = {e \in rels : e.from \in NodeIds(kept) /\ e.to \in NodeIds(kept)}

ReadGraph ==
    /\ ret' = read_graph(nodes, rels)
    /\ call' = [op |-> "read_graph", args |-> <<>>]
    /\ UNCHANGED <<nodes, rels>>

FindNodes(batches) ==
    \E names \in batches :
        /\ ret' = find_nodes(nodes, rels, names)
        /\ call' = [op |-> "find_nodes", args |-> names]
        /\ UNCHANGED <<nodes, rels>>

SearchNodes(queries) ==
    \E query \in queries :
        /\ ret' = search_nodes(nodes, rels, query)
        /\ call' = [op |-> "search_nodes", args |-> query]
        /\ UNCHANGED <<nodes, rels>>

\* the tool open_nodes calls find_nodes
OpenNodes(batches) ==
    \E names \in batches :
        /\ ret' = find_nodes(nodes, rels, names)
        /\ call' = [op |-> "open_nodes", args |-> names]
        /\ UNCHANGED <<nodes, rels>>

(***************************************************************************)
(* Tool dispatch layer (MCPServer._register_tools)                         *)
(***************************************************************************)
NoException == "none"

\* how a tool function ends: it returns a string or an exception leaves it
Returned(text) == [kind |-> "return", value |-> text]
Raised(e) == [kind |-> "raise", value |-> e]

\* f"Error: {str(e)}": a string is the list of its parts
ErrorString(e) == <<"Error: ", e>>

\* json.dumps(..., indent=2) of a list and of a dict
DumpsList(v) == <<"[", v>>
DumpsDict(v) == <<"{", v>>

\* What `except ValueError as e` would do: the other exceptions leave the tool
CaughtValidationOnly(e) ==
    IF e = "ValidationError" THEN Returned(ErrorString(e)) ELSE Raised(e)

\* except Exception as e: return f"Error: {str(e)}"
Caught(e) == Returned(ErrorString(e))

\* Entity(**entity), Relation(**relation), ...: every required field is there
EntityFields == {"name", "type", "observations"}
RelationFields == {"source", "target", "relationType"}
AdditionFields == {"entityName", "contents"}
DeletionFields == {"entityName", "observations"}

Coercible(payload, fields) ==
    \A i \in DOMAIN payload : DOMAIN payload[i] = fields

Store == [nodes |-> nodes, rels |-> rels]

\* An exception e inside the try block.  stores are the contents the engine
\* can be left with: the statement under way was rolled back, or its commit
\* went through before the error reached the driver.
Fail(op, args, e, stores) ==
    \E g \in stores :
        /\ nodes' = g.nodes
        /\ rels' = g.rels
        /\ call' = [op |-> op, args |-> args]
        /\ ret' = NoneValue
        /\ exc' = e
        /\ out' = Caught(e)

Succeed(text) ==
    /\ exc' = NoException
    /\ out' = Returned(text)

ToolCreateEntities(payloads) ==
    \E entities \in payloads :
        \/ /\ ~Coercible(entities, EntityFields)
           /\ Fail("create_entities", entities, "ValidationError", {Store})
        \/ /\ Coercible(entities, EntityFields)
           /\ CreateEntities({entities})
           /\ Succeed(DumpsList(ret'))
        \/ /\ Coercible(entities, EntityFields)
           /\ Fail("create_entities", entities, "ServiceUnavailable",
                   {Store, [nodes |-> CreateEntitiesQuery(nodes, entities),
                            rels |-> rels]})

ToolAddObservations(payloads) ==
    \E observations \in payloads :
        \/ /\ ~Coercible(observations, AdditionFields)
           /\ Fail("add_observations", observations, "ValidationError", {Store})
        \/ /\ Coercible(observations, AdditionFields)
           /\ AddObservations({observations})
           /\ Succeed(DumpsList(ret'))
        \/ /\ Coercible(observations, AdditionFields)
           /\ Fail("add_observations", observations, "ServiceUnavailable",
                   {Store} \cup
                   {[nodes |-> AddObservationsQuery(nodes, observations, eager).nodes,
                     rels |-> rels] : eager \in BOOLEAN})

ToolDeleteEntities(batches) ==
    \E entityNames \in batches :
        \/ /\ DeleteEntities({entityNames})
           /\ Succeed(<<"Entities deleted successfully">>)
        \/ Fail("delete_entities", entityNames, "ServiceUnavailable",
                {Store, DeleteEntitiesQuery(Store, entityNames)})

ToolDeleteObservations(payloads) ==
    \E deletions \in payloads :
        \/ /\ ~Coercible(deletions, DeletionFields)
           /\ Fail("delete_observations", deletions, "ValidationError", {Store})
        \/ /\ Coercible(deletions, DeletionFields)
           /\ DeleteObservations({deletions})
           /\ Succeed(<<"Observations deleted successfully">>)
        \/ /\ Coercible(deletions, DeletionFields)
           /\ Fail("delete_observations", deletions, "ServiceUnavailable",
                   {Store, [nodes |-> DeleteObservationsQuery(nodes, deletions),
                            rels |-> rels]})

ToolDeleteRelations(payloads) ==
    \E relations \in payloads :
        \/ /\ ~Coercible(relations, RelationFields)
           /\ Fail("delete_relations", relations, "ValidationError", {Store})
        \/ /\ Coercible(relations, RelationFields)
           /\ DeleteRelations({relations})
           /\ Succeed(<<"Relations deleted successfully">>)
        \/ /\ Coercible(relations, RelationFields)
           /\ Fail("delete_relations", relations, "ServiceUnavailable",
                   {Store, [nodes |-> nodes,
                            rels |-> DeleteRelationsQuery(nodes, rels, relations)]})

ToolReadGraph ==
    \/ ReadGraph /\ Succeed(DumpsDict(ret'))
    \/ Fail("read_graph", <<>>, "ServiceUnavailable", {Store})

ToolSearchNodes(queries) ==
    \E query \in queries :
        \/ SearchNodes({query}) /\ Succeed(DumpsDict(ret'))
        \/ Fail("search_nodes", query, "ServiceUnavailable", {Store})

ToolFindNodes(batches) ==
    \E names \in batches :
        \/ FindNodes({names}) /\ Succeed(DumpsDict(ret'))
        \/ Fail("find_nodes", names, "ServiceUnavailable", {Store})

ToolOpenNodes(batches) ==
    \E names \in batches :
        \/ OpenNodes({names}) /\ Succeed(DumpsDict(ret'))
        \/ Fail("open_nodes", names, "ServiceUnavailable", {Store})

(***************************************************************************)
(* create_relations statement by statement                                 *)
(***************************************************************************)
Callers == {"a", "b"}

IdleFlight ==
    [state |-> "idle", relations |-> <<>>, log |-> <<>>, failed |-> FALSE]

NoFlight == \A c \in Callers : flight[c].state = "idle"

\* What passing the loop variable as $relations would do
StatementParamsOne(relations, i) == <<relations[i]>>

\* {"relations": [relation.model_dump() for relation in relations]}: the i-th
\* statement is given the whole list
StatementParams(relations, i) == relations

\* What a loop that caught the exception and went on would do
KeepLooping(f) == f

\* the exception leaves the for loop
Abandon(f) == [f EXCEPT !.state = "raised"]

\* the tool coerces its payload and create_relations enters its loop
BeginCreateRelations(c, payloads) ==
    /\ flight[c].state = "idle"
    /\ \E relations \in payloads :
           \/ /\ ~Coercible(relations, RelationFields)
              /\ Fail("create_relations", relations, "ValidationError", {Store})
              /\ flight' = flight
           \/ /\ Coercible(relations, RelationFields)
              /\ flight' = [flight EXCEPT ![c] =
                               [state |-> "running", relations |-> relations,
                                log |-> <<>>, failed |-> FALSE]]
              /\ UNCHANGED <<nodes, rels, call, ret, out, exc>>

\* one execute_query of the loop: the statement commits, or it raises
IssueStatement(c) ==
    LET f == flight[c]
        i == Len(f.log) + 1
    IN /\ f.state = "running"
       /\ i <= Len(f.relations)
       /\ LET params == StatementParams(f.relations, i)
              after == CreateRelationsQuery(Store, params)
          IN \/ /\ nodes' = after.nodes
                /\ rels' = after.rels
                /\ flight' = [flight EXCEPT ![c].log = Append(@, params)]
                /\ UNCHANGED <<call, ret, out, exc>>
             \/ /\ Fail("create_relations", f.relations, "ServiceUnavailable",
                        {Store, after})
                /\ flight' = [flight EXCEPT ![c] =
                                 Abandon([f EXCEPT !.log = Append(@, params),
                                                   !.failed = TRUE])]

\* return relations
ReturnCreateRelations(c) ==
    LET f == flight[c]
    IN /\ f.state = "running"
       /\ Len(f.log) = Len(f.relations)
       /\ flight' = [flight EXCEPT ![c].state = "returned"]
       /\ call' = [op |-> "create_relations", args |-> f.relations]
       /\ ret' = f.relations
       /\ Succeed(DumpsList(ret'))
       /\ UNCHANGED <<nodes, rels>>

(***************************************************************************)
(* The caller takes the result; the next call can be made                  *)
(***************************************************************************)
Idle == [op |-> "idle", args |-> <<>>]

Ready == call = Idle

Respond ==
    /\ call # Idle
    /\ call' = Idle
    /\ ret' = NoneValue
    /\ UNCHANGED <<nodes, rels>>

\* the same for a tool call: its response is taken, a create_relations call
\* that has ended leaves the loop state behind
ToolRespond ==
    /\ Respond
    /\ out' = NoneValue
    /\ exc' = NoException
    /\ flight' = [c \in Callers |->
                     IF flight[c].state \in {"returned", "raised"}
                     THEN IdleFlight ELSE flight[c]]

(***************************************************************************)
(* Neo4jMemory.__init__ and create_fulltext_index                          *)
(***************************************************************************)
AlreadyExistsText == "An index with this name already exists"

NoError == [type |-> "none", message |-> <<>>]

\* what execute_query answers to CREATE FULLTEXT INDEX: nothing is raised, or
\* an exception with its type and the parts of its message
IndexOutcomes ==
    {NoError,
     [type |-> "ClientError", message |-> <<AlreadyExistsText>>],
     [type |-> "ClientError",
      message |-> <<"Neo.ClientError.Schema", AlreadyExistsText, "search">>],
     [type |-> "ClientError", message |-> <<"Invalid input">>],
     [type |-> "ServiceUnavailable", message |-> <<"Connection refused">>]}

\* What `except neo4j.exceptions.ClientError: pass` would do
create_fulltext_index_lenient(e) ==
    IF e.type = "ClientError" THEN NoError ELSE e

\* The exception that leaves create_fulltext_index, if any: a ClientError is
\* caught, logged when "An index with this name already exists" in str(e)
\* and raised again otherwise; any other exception is not caught.
create_fulltext_index(e) ==
    IF e.type = "ClientError" /\ AlreadyExistsText \in Range(e.message)
    THEN NoError
    ELSE e

NotBuilt ==
    [state |-> "absent", indexQueries |-> 0, outcome |-> NoError,
     raised |-> NoError]

\* the object after a construction in which the engine raised nothing
Built ==
    [state |-> "ready", indexQueries |-> 1, outcome |-> NoError,
     raised |-> NoError]

\* a repository method needs the object that __init__ returned
Constructed == memory.state = "ready"

\* Neo4jMemory(neo4j_driver): __init__ calls create_fulltext_index
Construct ==
    /\ memory.state = "absent"
    /\ \E e \in IndexOutcomes :
           LET left == create_fulltext_index(e)
           IN memory' = [state |-> IF left = NoError THEN "ready" ELSE "failed",
                         indexQueries |-> memory.indexQueries + 1,
                         outcome |-> e,
                         raised |-> left]
    /\ UNCHANGED <<nodes, rels, call, ret, dispatch, server>>

(***************************************************************************)
(* MCPServer.run and _get_ssl_context                                      *)
(***************************************************************************)
\* Python truth of an argument: None, False and "" are false
Truthy(v) == v \notin {NoneValue, "False", ""}

GeneratedCert == ".ssl/cert.pem"
GeneratedKey == ".ssl/key.pem"

\* Path(...).exists(): the files the caller names are there, except the ones
\* called "gone"; the files of .ssl are there once they have been generated
Exists(path, ssl) ==
    \/ path \in {"given.pem", "given.key"}
    \/ path \in {GeneratedCert, GeneratedKey} /\ ssl # "absent"

\* generate_self_signed_cert(Path(".ssl")): the files of .ssl are returned
\* as they are when they are still valid, and written anew otherwise
generate_self_signed_cert(ssl) ==
    [cert_file |-> GeneratedCert, key_file |-> GeneratedKey,
     ssl |-> "fresh", generated |-> ssl # "fresh"]

_get_ssl_context(cert_file, key_file, development_mode, ssl) ==
    LET develop == /\ Truthy(development_mode)
                   /\ ~Truthy(cert_file)
                   /\ ~Truthy(key_file)
        made == generate_self_signed_cert(ssl)
        cert == IF develop THEN made.cert_file ELSE cert_file
        key == IF develop THEN made.key_file ELSE key_file
        dir == IF develop THEN made.ssl ELSE ssl
        result ==
            IF ~Truthy(cert) \/ ~Truthy(key) THEN "None"
            ELSE IF ~Exists(cert, dir) \/ ~Exists(key, dir)
                 THEN "FileNotFoundError"
                 ELSE "SSLContext"
    IN [result |-> result, cert_file |-> cert, key_file |-> key, ssl |-> dir,
        generated |-> develop /\ made.generated]

\* run(host, port, cert_file, key_file, development_mode): what the server
\* ends up doing
run(cert_file, key_file, development_mode, ssl) ==
    IF Truthy(cert_file) /\ Truthy(key_file)
    THEN LET context == _get_ssl_context(cert_file, key_file,
                                         development_mode, ssl)
         IN IF context.result = "SSLContext"
            THEN \* uvicorn.run(app, ssl_keyfile=key_file, ssl_certfile=cert_file)
                 [phase |-> "serving", protocol |-> "https",
                  ssl |-> context.ssl, generated |-> context.generated]
            ELSE IF context.result = "None"
            THEN \* self.mcp.run(transport="sse")
                 [phase |-> "serving", protocol |-> "http",
                  ssl |-> context.ssl, generated |-> context.generated]
            ELSE [phase |-> "raised", protocol |-> NoneValue,
                  ssl |-> context.ssl, generated |-> context.generated]
    ELSE \* self.mcp.run(transport="sse")
         [phase |-> "serving", protocol |-> "http", ssl |-> ssl,
          generated |-> FALSE]

\* the arguments of run and the state of the directory .ssl
Configurations ==
    [phase : {"configured"},
     cert_file : {NoneValue, "given.pem", "gone.pem"},
     key_file : {NoneValue, "given.key", "gone.key"},
     development_mode : {"True", "False", NoneValue},
     ssl : {"absent", "stale", "fresh"},
     protocol : {NoneValue},
     generated : {FALSE}]

Run ==
    /\ server.phase = "configured"
    /\ LET end == run(server.cert_file, server.key_file,
                      server.development_mode, server.ssl)
       IN server' = [server EXCEPT !.phase = end.phase,
                                   !.protocol = end.protocol,
                                   !.ssl = end.ssl,
                                   !.generated = end.generated]
    /\ UNCHANGED <<nodes, rels, call, ret, dispatch, memory>>

(***************************************************************************)
(* Specifications                                                          *)
(***************************************************************************)
\* an empty engine, no call made
InitStore ==
    /\ nodes = {}
    /\ rels = {}
    /\ call = Idle
    /\ ret = NoneValue
    /\ out = NoneValue
    /\ exc = NoException
    /\ flight = [c \in Callers |-> IdleFlight]

Init ==
    /\ InitStore
    /\ memory = Built
    /\ server = NoneValue

\* Spec: every operation, one call at a time, observation lists kept short
EntityBatches == SeqsUpTo(Entity(Names, Types, SeqsUpTo({"x"}, 1)), MaxBatch)
NameBatches == SeqsUpTo(Names, MaxBatch)
RelationBatches == SeqsUpTo(Relation(Names, RelTypes), MaxBatch)
AdditionBatches == SeqsUpTo(ObservationAddition(Names, {<<"x">>}), MaxBatch)
DeletionBatches ==
    SeqsUpTo(ObservationDeletion(Names, {<<"x">>, <<"y">>}), MaxBatch)
QueryBatches == NonEmptySeqsUpTo(QueryNames, MaxBatch)

Next ==
    \/ Ready /\ CreateEntities(EntityBatches) /\ UNCHANGED <<dispatch, host>>
    \/ Ready /\ CreateRelations(RelationBatches) /\ UNCHANGED <<dispatch, host>>
    \/ Ready /\ AddObservations(AdditionBatches) /\ UNCHANGED <<dispatch, host>>
    \/ Ready /\ DeleteEntities(NameBatches) /\ UNCHANGED <<dispatch, host>>
    \/ Ready /\ DeleteObservations(DeletionBatches) /\ UNCHANGED <<dispatch, host>>
    \/ Ready /\ DeleteRelations(RelationBatches) /\ UNCHANGED <<dispatch, host>>
    \/ Ready /\ ReadGraph /\ UNCHANGED <<dispatch, host>>
    \/ Ready /\ FindNodes(QueryBatches) /\ UNCHANGED <<dispatch, host>>
    \/ Ready /\ OpenNodes(QueryBatches) /\ UNCHANGED <<dispatch, host>>
    \/ Respond /\ UNCHANGED <<dispatch, host>>

Spec == Init /\ [][Next]_vars

\* SpecObs: the entity and observation operations, one call at a time, with
\* every observation list up to MaxLen
ObsLists == SeqsUpTo(Obs, MaxLen)
ObsEntityBatches == SeqsUpTo(Entity(Names, {"person"}, ObsLists), MaxBatch)
ObsAdditionBatches == SeqsUpTo(ObservationAddition(Names, ObsLists), MaxBatch)
ObsDeletionBatches == SeqsUpTo(ObservationDeletion(Names, ObsLists), MaxBatch)

NextObs ==
    \/ Ready /\ CreateEntities(ObsEntityBatches) /\ UNCHANGED <<dispatch, host>>
    \/ Ready /\ AddObservations(ObsAdditionBatches) /\ UNCHANGED <<dispatch, host>>
    \/ Ready /\ DeleteObservations(ObsDeletionBatches) /\ UNCHANGED <<dispatch, host>>
    \/ Ready /\ DeleteEntities(NameBatches) /\ UNCHANGED <<dispatch, host>>
    \/ Respond /\ UNCHANGED <<dispatch, host>>

SpecObs == Init /\ [][NextObs]_vars

\* SpecSeq: calls made back to back; the previous call and its result stay
\* recorded until the next call replaces them
SeqEntityBatches == NonEmptySeqsUpTo(Entity(Names, {"person"}, {<<>>}), 1)
SeqAdditionBatches == NonEmptySeqsUpTo(ObservationAddition(Names, ObsLists), 1)
SeqNameBatches == NonEmptySeqsUpTo(Names, 1)

NextSeq ==
    \/ CreateEntities(SeqEntityBatches) /\ UNCHANGED <<dispatch, host>>
    \/ AddObservations(SeqAdditionBatches) /\ UNCHANGED <<dispatch, host>>
    \/ DeleteEntities(SeqNameBatches) /\ UNCHANGED <<dispatch, host>>

SpecSeq == Init /\ [][NextSeq]_vars

\* SpecLoad: the read operations on stores that hold an entity whose name is
\* the empty string, an entity whose name starts with "-", and relations
\* between them
LoadNames == {<<>>, <<"ann">>, <<"lee">>, <<"-ann">>}
LoadEntityBatches ==
    NonEmptySeqsUpTo(Entity(LoadNames, {"person"}, SeqsUpTo({"x"}, 1)), 1)
LoadRelationBatches == NonEmptySeqsUpTo(Relation(LoadNames, {"knows"}), 1)
LoadNameBatches == NonEmptySeqsUpTo(LoadNames, 1)
LoadQueries ==
    {<<"ann">>, <<"lee">>, <<"-ann">>, <<"person">>, <<"x">>, <<"zed">>,
     <<"ann", "lee">>}
LoadQueryBatches == NonEmptySeqsUpTo(LoadNames \ {<<>>}, MaxBatch)

NextLoad ==
    \/ Ready /\ CreateEntities(LoadEntityBatches) /\ UNCHANGED <<dispatch, host>>
    \/ Ready /\ CreateRelations(LoadRelationBatches) /\ UNCHANGED <<dispatch, host>>
    \/ Ready /\ DeleteEntities(LoadNameBatches) /\ UNCHANGED <<dispatch, host>>
    \/ Ready /\ ReadGraph /\ UNCHANGED <<dispatch, host>>
    \/ Ready /\ SearchNodes(LoadQueries) /\ UNCHANGED <<dispatch, host>>
    \/ Ready /\ FindNodes(LoadQueryBatches) /\ UNCHANGED <<dispatch, host>>
    \/ Ready /\ OpenNodes(LoadQueryBatches) /\ UNCHANGED <<dispatch, host>>
    \/ Respond /\ UNCHANGED <<dispatch, host>>

SpecLoad == Init /\ [][NextLoad]_vars

\* SpecTools: the ten tools, one call at a time, with payloads that lack a
\* required field and an engine that can fail; create_relations runs its
\* loop statement by statement
ToolNames == {<<"ann">>, <<"lee">>}
ToolEntityPayloads ==
    NonEmptySeqsUpTo(Entity(ToolNames, {"person"}, SeqsUpTo({"x"}, 1))
                     \cup [name : ToolNames, observations : {<<>>}], 1)
ToolRelations ==
    [source : {<<"ann">>}, target : ToolNames, relationType : {"knows"}]
ToolRelationPayloads ==
    SeqsUpTo(ToolRelations \cup [source : {<<"ann">>}, target : {<<"lee">>}],
             MaxBatch)
ToolRelationDeletions ==
    NonEmptySeqsUpTo(ToolRelations
                     \cup [source : {<<"ann">>}, target : {<<"lee">>}], 1)
ToolAdditionPayloads ==
    NonEmptySeqsUpTo(ObservationAddition(ToolNames, {<<"x">>})
                     \cup [entityName : ToolNames], 1)
ToolDeletionPayloads ==
    NonEmptySeqsUpTo(ObservationDeletion(ToolNames, {<<"x">>})
                     \cup [entityName : ToolNames], 1)
ToolNameBatches == NonEmptySeqsUpTo(ToolNames, 1)
ToolQueries == {<<"ann">>, <<"zed">>}

NextTools ==
    \/ Ready /\ NoFlight /\ ToolCreateEntities(ToolEntityPayloads)
             /\ UNCHANGED <<flight, host>>
    \/ Ready /\ NoFlight /\ ToolAddObservations(ToolAdditionPayloads)
             /\ UNCHANGED <<flight, host>>
    \/ Ready /\ NoFlight /\ ToolDeleteEntities(ToolNameBatches)
             /\ UNCHANGED <<flight, host>>
    \/ Ready /\ NoFlight /\ ToolDeleteObservations(ToolDeletionPayloads)
             /\ UNCHANGED <<flight, host>>
    \/ Ready /\ NoFlight /\ ToolDeleteRelations(ToolRelationDeletions)
             /\ UNCHANGED <<flight, host>>
    \/ Ready /\ NoFlight /\ ToolReadGraph /\ UNCHANGED <<flight, host>>
    \/ Ready /\ NoFlight /\ ToolSearchNodes(ToolQueries) /\ UNCHANGED <<flight, host>>
    \/ Ready /\ NoFlight /\ ToolFindNodes(ToolNameBatches) /\ UNCHANGED <<flight, host>>
    \/ Ready /\ NoFlight /\ ToolOpenNodes(ToolNameBatches) /\ UNCHANGED <<flight, host>>
    \/ Ready /\ NoFlight /\ BeginCreateRelations("a", ToolRelationPayloads)
             /\ UNCHANGED host
    \/ Ready /\ IssueStatement("a") /\ UNCHANGED host
    \/ Ready /\ ReturnCreateRelations("a") /\ UNCHANGED host
    \/ ToolRespond /\ UNCHANGED host

SpecTools == Init /\ [][NextTools]_vars

\* SpecInit: from before the construction of the store
InitAbsent ==
    /\ InitStore
    /\ memory = NotBuilt
    /\ server = NoneValue

NextInit ==
    \/ Construct
    \/ Constructed /\ Ready /\ CreateEntities(LoadEntityBatches)
                   /\ UNCHANGED <<dispatch, host>>
    \/ Constructed /\ Ready /\ DeleteEntities(LoadNameBatches)
                   /\ UNCHANGED <<dispatch, host>>
    \/ Constructed /\ Ready /\ ReadGraph /\ UNCHANGED <<dispatch, host>>
    \/ Constructed /\ Ready /\ SearchNodes(LoadQueries)
                   /\ UNCHANGED <<dispatch, host>>
    \/ Respond /\ UNCHANGED <<dispatch, host>>

SpecInit == InitAbsent /\ [][NextInit]_vars

\* SpecDel: deleteObservations on lists with up to MaxStored strings out of
\* three, repeated or not, next to a second entity and a relation
MaxStored == 3
DelNames == {<<"ann">>, <<"lee">>}
DelObs == {"x", "y", "z"}
DelEntityBatches ==
    NonEmptySeqsUpTo(Entity({<<"ann">>}, {"person"}, SeqsUpTo(DelObs, MaxStored))
                     \cup Entity({<<"lee">>}, {"city"}, SeqsUpTo({"y"}, 1)), 1)
DelRelationBatches ==
    NonEmptySeqsUpTo(Relation(DelNames, {"knows"}), 1)
DelDeletionBatches ==
    SeqsUpTo(ObservationDeletion(DelNames, SeqsUpTo(DelObs, MaxLen)), MaxBatch)

NextDel ==
    \/ Ready /\ CreateEntities(DelEntityBatches)
             /\ UNCHANGED <<dispatch, host>>
    \/ Ready /\ CreateRelations(DelRelationBatches)
             /\ UNCHANGED <<dispatch, host>>
    \/ Ready /\ DeleteObservations(DelDeletionBatches)
             /\ UNCHANGED <<dispatch, host>>
    \/ Respond /\ UNCHANGED <<dispatch, host>>

SpecDel == Init /\ [][NextDel]_vars

\* SpecRun: the server is run once, with any arguments
InitRun ==
    /\ InitStore
    /\ memory = Built
    /\ server \in Configurations

NextRun == Run

SpecRun == InitRun /\ [][NextRun]_vars

\* SpecConc: two create_relations calls run their loops while other calls
\* are made; every execute_query is one step, the steps of the calls
\* interleave in any order
ConcNames == {<<"ann">>, <<"lee">>}
ConcEntityBatches ==
    NonEmptySeqsUpTo(Entity(ConcNames, {"person"}, {<<>>}), 1)
ConcRelations == Relation(ConcNames, {"knows"})
ConcRelationBatches ==
    SeqsUpTo([source : {<<"ann">>}, target : ConcNames,
              relationType : {"knows"}], MaxBatch)
ConcNameBatches == NonEmptySeqsUpTo(ConcNames, 1)
ConcAdditionBatches ==
    NonEmptySeqsUpTo(ObservationAddition({<<"ann">>}, {<<"x">>}), 1)
ConcDeletionBatches ==
    NonEmptySeqsUpTo(ObservationDeletion({<<"ann">>}, {<<"x">>}), 1)
ConcRelationDeletions == NonEmptySeqsUpTo(ConcRelations, 1)

NextConc ==
    \/ Ready /\ CreateEntities(ConcEntityBatches)
             /\ UNCHANGED <<dispatch, host>>
    \/ Ready /\ AddObservations(ConcAdditionBatches)
             /\ UNCHANGED <<dispatch, host>>
    \/ Ready /\ DeleteEntities(ConcNameBatches)
             /\ UNCHANGED <<dispatch, host>>
    \/ Ready /\ DeleteObservations(ConcDeletionBatches)
             /\ UNCHANGED <<dispatch, host>>
    \/ Ready /\ DeleteRelations(ConcRelationDeletions)
             /\ UNCHANGED <<dispatch, host>>
    \/ \E c \in Callers :
           Ready /\ BeginCreateRelations(c, ConcRelationBatches)
                 /\ UNCHANGED host
    \/ \E c \in Callers : Ready /\ IssueStatement(c) /\ UNCHANGED host
    \/ \E c \in Callers : Ready /\ ReturnCreateRelations(c) /\ UNCHANGED host
    \/ ToolRespond /\ UNCHANGED host

SpecConc == Init /\ [][NextConc]_vars

(***************************************************************************)
(* Vocabulary of the properties                                            *)
(***************************************************************************)
EntitiesNamed(N, name) == {n \in N : n.name = name}

EndpointNames(N, id) == {n.name : n \in {m \in N : m.id = id}}

\* the stored edges that are the triple (source, target, relationType)
EdgesFor(N, R, relation) ==
    {e \in R : /\ EndpointNames(N, e.from) = {relation.source}
               /\ EndpointNames(N, e.to) = {relation.target}
               /\ e.type = relation.relationType}

MissingEndpoint(N, relation) ==
    \/ EntitiesNamed(N, relation.source) = {}
    \/ EntitiesNamed(N, relation.target) = {}

\* entities[i] is the last element of the batch with its name
LastOfName(entities, i) ==
    \A j \in DOMAIN entities : j > i => entities[j].name # entities[i].name

\* the contents of the additions that name the entity, in input order
RECURSIVE ContentsFor(_, _)
ContentsFor(observations, name) ==
    IF observations = <<>> THEN <<>>
    ELSE (IF Head(observations).entityName = name
          THEN Head(observations).contents ELSE <<>>)
         \o ContentsFor(Tail(observations), name)

\* the strings reported for the entity, in the order of the report
RECURSIVE ReportedFor(_, _)
ReportedFor(records, name) ==
    IF records = <<>> THEN <<>>
    ELSE (IF Head(records).entityName = name
          THEN Head(records).addedObservations ELSE <<>>)
         \o ReportedFor(Tail(records), name)

\* the additions that name a stored entity, in input order
RECURSIVE AdditionsToStored(_, _)
AdditionsToStored(N, observations) ==
    IF observations = <<>> THEN <<>>
    ELSE (IF EntitiesNamed(N, Head(observations).entityName) # {}
          THEN <<Head(observations)>> ELSE <<>>)
         \o AdditionsToStored(N, Tail(observations))

(***************************************************************************)
(* C1                                                                      *)
(***************************************************************************)
\* C1: the store holds at most one entity per name, whatever createEntities
\* calls were made (a name repeated across calls or inside one batch); after
\* a createEntities call every name of the batch is stored exactly once.
C1_OneEntityPerName ==
    /\ \A n1, n2 \in nodes : n1.name = n2.name => n1 = n2
    /\ call.op = "create_entities" =>
           \A i \in DOMAIN call.args :
               Cardinality(EntitiesNamed(nodes, call.args[i].name)) = 1

\* a batch that repeats a name has been applied and the name is stored once
C1_Witness ==
    /\ call.op = "create_entities"
    /\ Len(call.args) = 2
    /\ call.args[1].name = call.args[2].name
    /\ Cardinality(EntitiesNamed(nodes, call.args[1].name)) = 1

(***************************************************************************)
(* C7                                                                      *)
(***************************************************************************)
\* C7: after createEntities the stored type and observations of every name
\* of the batch are exactly the values supplied for it (the last element of
\* the batch with that name): an existing entity is overwritten, not merged,
\* and an absent one is created.
C7_CreateOverwrites ==
    call.op = "create_entities" =>
        \A i \in DOMAIN call.args :
            LastOfName(call.args, i) =>
                /\ EntitiesNamed(nodes, call.args[i].name) # {}
                /\ \A n \in EntitiesNamed(nodes, call.args[i].name) :
                       /\ n.type = call.args[i].type
                       /\ n.observations = call.args[i].observations

\* an entity that existed with another type (it still carries that label) has
\* been re-created and holds the supplied values
C7_Witness ==
    /\ call.op = "create_entities"
    /\ Len(call.args) = 1
    /\ \E n \in nodes :
           /\ n.name = call.args[1].name
           /\ n.labels # {"Memory", call.args[1].type}
           /\ n.type = call.args[1].type
           /\ n.observations = call.args[1].observations

(***************************************************************************)
(* C4                                                                      *)
(***************************************************************************)
\* C4: createRelations returns its input and changes no entity; every edge it
\* adds is the triple of an input relation whose two endpoints exist, and a
\* relation with a missing endpoint is not in the graph readGraph returns
\* afterwards.
C4_SilentMissOnCreate ==
    [][call'.op = "create_relations" =>
          /\ ret' = call'.args
          /\ nodes' = nodes
          /\ \A e \in rels' \ rels :
                 \E i \in DOMAIN call'.args :
                     /\ ~MissingEndpoint(nodes, call'.args[i])
                     /\ e \in EdgesFor(nodes, rels', call'.args[i])
          /\ \A i \in DOMAIN call'.args :
                 MissingEndpoint(nodes, call'.args[i]) =>
                     call'.args[i] \notin
                         Range(read_graph(nodes', rels').relations)]_vars

\* a relation with a missing endpoint was passed next to one that was stored
C4_Witness ==
    /\ call.op = "create_relations"
    /\ ret = call.args
    /\ \E i, j \in DOMAIN call.args :
           /\ MissingEndpoint(nodes, call.args[i])
           /\ EdgesFor(nodes, rels, call.args[j]) # {}

(***************************************************************************)
(* C5                                                                      *)
(***************************************************************************)
\* C5: deleteEntities(names) removes exactly the entities named and exactly
\* the relations with a named source or target; every other entity and
\* relation is as before, and no relation of a later readGraph touches a
\* deleted name.
C5_CascadeDelete ==
    [][call'.op = "delete_entities" =>
          LET names == Range(call'.args)
          IN /\ nodes' = {n \in nodes : n.name \notin names}
             /\ rels' = {e \in rels :
                            /\ EndpointNames(nodes, e.from) \cap names = {}
                            /\ EndpointNames(nodes, e.to) \cap names = {}}
             /\ \A rel \in Range(read_graph(nodes', rels').relations) :
                    rel.source \notin names /\ rel.target \notin names]_vars

\* one entity was deleted, the other one is still stored with an edge
C5_Witness ==
    /\ call.op = "delete_entities"
    /\ Len(call.args) = 1
    /\ EntitiesNamed(nodes, call.args[1]) = {}
    /\ nodes # {}
    /\ rels # {}

(***************************************************************************)
(* C6                                                                      *)
(***************************************************************************)
\* C6: there is at most one stored edge per ordered triple (source, target,
\* relationType), and after createRelations every input relation whose
\* endpoints exist is stored as exactly one edge.
C6_OneEdgePerTriple ==
    /\ \A e1, e2 \in rels :
           ( /\ EndpointNames(nodes, e1.from) = EndpointNames(nodes, e2.from)
             /\ EndpointNames(nodes, e1.to) = EndpointNames(nodes, e2.to)
             /\ e1.type = e2.type ) => e1 = e2
    /\ call.op = "create_relations" =>
           \A i \in DOMAIN call.args :
               ~MissingEndpoint(nodes, call.args[i]) =>
                   Cardinality(EdgesFor(nodes, rels, call.args[i])) = 1

\* a batch repeating one triple was applied while the reversed triple is
\* stored: two edges, one per triple
C6_Witness ==
    /\ call.op = "create_relations"
    /\ Len(call.args) = 2
    /\ call.args[1] = call.args[2]
    /\ call.args[1].source # call.args[1].target
    /\ Cardinality(EdgesFor(nodes, rels, call.args[1])) = 1
    /\ Cardinality(EdgesFor(nodes, rels,
                            [source |-> call.args[1].target,
                             target |-> call.args[1].source,
                             relationType |-> call.args[1].relationType])) = 1
    /\ Cardinality(rels) = 2

(***************************************************************************)
(* C9                                                                      *)
(***************************************************************************)
\* C9: a deletion that matches nothing returns normally and leaves entities,
\* observation lists and relations as they were: deleteEntities with names
\* that are not stored, deleteObservations with strings the entity does not
\* hold or with an entity that is not stored, deleteRelations with triples
\* that are not stored.
C9_DeleteMissIsNoOp ==
    [][/\ ( /\ call'.op = "delete_entities"
            /\ \A i \in DOMAIN call'.args :
                   EntitiesNamed(nodes, call'.args[i]) = {} )
          => (nodes' = nodes /\ rels' = rels /\ ret' = NoneValue)
       /\ ( /\ call'.op = "delete_observations"
            /\ \A i \in DOMAIN call'.args :
                   \A n \in EntitiesNamed(nodes, call'.args[i].entityName) :
                       Range(n.observations)
                           \cap Range(call'.args[i].observations) = {} )
          => (nodes' = nodes /\ rels' = rels /\ ret' = NoneValue)
       /\ ( /\ call'.op = "delete_relations"
            /\ \A i \in DOMAIN call'.args :
                   EdgesFor(nodes, rels, call'.args[i]) = {} )
          => (nodes' = nodes /\ rels' = rels /\ ret' = NoneValue)]_vars

\* deleteObservations named a string that a stored, non-empty list does not
\* hold
C9_Witness ==
    /\ call.op = "delete_observations"
    /\ Len(call.args) = 1
    /\ call.args[1].observations # <<>>
    /\ \E n \in EntitiesNamed(nodes, call.args[1].entityName) :
           /\ n.observations # <<>>
           /\ Range(n.observations) \cap Range(call.args[1].observations) = {}

\* deleteRelations named a triple that is not stored while another relation
\* type links the same two entities
C9_WitnessRelation ==
    /\ call.op = "delete_relations"
    /\ Len(call.args) = 1
    /\ ~MissingEndpoint(nodes, call.args[1])
    /\ EdgesFor(nodes, rels, call.args[1]) = {}
    /\ rels # {}

(***************************************************************************)
(* C10                                                                     *)
(***************************************************************************)
\* C10: findNodes(names) and openNodes(names) return only entities whose
\* name is a member of names.
C10_FindReturnsOnlyNamed ==
    call.op \in {"find_nodes", "open_nodes"} =>
        \A i \in DOMAIN ret.entities :
            ret.entities[i].name \in Range(call.args)

(***************************************************************************)
(* C3                                                                      *)
(***************************************************************************)
\* C3: one addObservations call never makes a value appear twice: a list
\* without repeated values before the call is, after it, the old list
\* followed by the strings it did not hold, each once, in the order of their
\* first occurrence in the contents given for the entity.
C3_AddNeverRepeats ==
    [][call'.op = "add_observations" =>
          \A n \in nodes :
              NoRepeat(n.observations) =>
                  \A m \in nodes' :
                      m.id = n.id =>
                          m.observations =
                              n.observations
                              \o Distinct(FilterNotIn(
                                     ContentsFor(call'.args, n.name),
                                     Range(n.observations)))]_vars

(***************************************************************************)
(* C8                                                                      *)
(***************************************************************************)
\* C8 as stated: addObservations reports one entry per addition of the
\* input, with the name of the addition; the entry of an addition whose
\* entity is not stored holds no string, and no entity is created.
C8_OneReportPerAddition ==
    [][call'.op = "add_observations" =>
          /\ Len(ret') = Len(call'.args)
          /\ \A i \in DOMAIN call'.args :
                 /\ ret'[i].entityName = call'.args[i].entityName
                 /\ EntitiesNamed(nodes, call'.args[i].entityName) = {} =>
                        ret'[i].addedObservations = <<>>
          /\ NodeIds(nodes') = NodeIds(nodes)]_vars

\* C8 amended: addObservations reports one entry per addition that names a
\* stored entity, in input order and with that name; an addition naming an
\* entity that is not stored gets no entry and creates no entity.  The
\* strings reported for an entity are exactly the strings appended to its
\* list, each of them taken from the addition's contents and absent from the
\* list before the call; the entry is empty when the list held every string.
C8_ReportsWhatWasAdded ==
    [][call'.op = "add_observations" =>
          LET stored == AdditionsToStored(nodes, call'.args)
          IN /\ Len(ret') = Len(stored)
             /\ \A i \in DOMAIN stored :
                    /\ ret'[i].entityName = stored[i].entityName
                    /\ Range(ret'[i].addedObservations)
                           \subseteq Range(stored[i].contents)
                    /\ \A n \in EntitiesNamed(nodes, stored[i].entityName) :
                           /\ Range(ret'[i].addedObservations)
                                  \cap Range(n.observations) = {}
                           /\ Range(stored[i].contents)
                                  \subseteq Range(n.observations)
                              => ret'[i].addedObservations = <<>>
             /\ NodeIds(nodes') = NodeIds(nodes)
             /\ rels' = rels
             /\ \A n \in nodes : \A m \in nodes' :
                    m.id = n.id =>
                        /\ m.observations =
                               n.observations \o ReportedFor(ret', n.name)
                        /\ m.name = n.name /\ m.type = n.type]_vars

\* a batch naming a stored entity and an entity that is not stored was
\* applied: one entry, with the strings added to the stored entity
C8_Witness ==
    /\ call.op = "add_observations"
    /\ Len(call.args) = 2
    /\ EntitiesNamed(nodes, call.args[1].entityName) = {}
    /\ EntitiesNamed(nodes, call.args[2].entityName) # {}
    /\ Len(ret) = 1
    /\ ret[1].entityName = call.args[2].entityName
    /\ ret[1].addedObservations # <<>>

(***************************************************************************)
(* C2                                                                      *)
(***************************************************************************)
\* C2: when addObservations on an entity E with S1 (E held no observation
\* before it) is followed by addObservations on E with S2, the list of E is
\* the ordered deduplication of S1 ++ S2 and the second call reports S2
\* minus S1 in the order of S2.
C2_AddTwiceIsOrderedUnion ==
    [][( /\ call.op = "add_observations" /\ call'.op = "add_observations"
         /\ Len(call.args) = 1 /\ Len(call'.args) = 1
         /\ call'.args[1].entityName = call.args[1].entityName
         /\ ret = <<[entityName |-> call.args[1].entityName,
                     addedObservations |-> call.args[1].contents]>>
         /\ \A n \in EntitiesNamed(nodes, call.args[1].entityName) :
                n.observations = call.args[1].contents )
       => ( /\ \A m \in EntitiesNamed(nodes', call.args[1].entityName) :
                   m.observations =
                       Distinct(call.args[1].contents \o call'.args[1].contents)
            /\ Len(ret') = 1
            /\ ret'[1].addedObservations =
                   FilterNotIn(call'.args[1].contents,
                               Range(call.args[1].contents)) )]_vars

\* C2 for sequences S1 and S2 that do not repeat a string
C2_AddTwiceDistinctInputs ==
    [][( /\ call.op = "add_observations" /\ call'.op = "add_observations"
         /\ Len(call.args) = 1 /\ Len(call'.args) = 1
         /\ call'.args[1].entityName = call.args[1].entityName
         /\ NoRepeat(call.args[1].contents)
         /\ NoRepeat(call'.args[1].contents)
         /\ ret = <<[entityName |-> call.args[1].entityName,
                     addedObservations |-> call.args[1].contents]>>
         /\ \A n \in EntitiesNamed(nodes, call.args[1].entityName) :
                n.observations = call.args[1].contents )
       => ( /\ \A m \in EntitiesNamed(nodes', call.args[1].entityName) :
                   m.observations =
                       Distinct(call.args[1].contents \o call'.args[1].contents)
            /\ Len(ret') = 1
            /\ ret'[1].addedObservations =
                   FilterNotIn(call'.args[1].contents,
                               Range(call.args[1].contents)) )]_vars

(***************************************************************************)
(* C11                                                                     *)
(***************************************************************************)
ReadOps == {"read_graph", "search_nodes", "find_nodes", "open_nodes"}

\* the filter load_graph was given by the read operation
ReadFilter(c) ==
    CASE c.op = "read_graph" -> MatchAll
      [] c.op = "search_nodes" -> QueryFilter(c.args)
      [] OTHER -> NameFilter(c.args)

EntityOf(n) ==
    [name |-> n.name, type |-> n.type, observations |-> n.observations]

TriplesOf(N, e) ==
    {[source |-> s, target |-> t, relationType |-> e.type] :
        s \in EndpointNames(N, e.from), t \in EndpointNames(N, e.to)}

Occurrences(list, x) == Cardinality({i \in DOMAIN list : list[i] = x})

\* C11: the graph a read operation gets from loadGraph(filter) holds every
\* entity the filter matches exactly once and every stored relation with a
\* matched source or target exactly once (also when both are matched), and
\* nothing else; an entity with an empty name, and a relation whose source or
\* target name is empty, are left out.
C11_LoadGraphContent ==
    call.op \in ReadOps =>
        LET matched == QueryNodes(nodes, ReadFilter(call))
            ids == NodeIds(matched)
            named == {n \in matched : n.name # <<>>}
            touching == {e \in rels : e.from \in ids \/ e.to \in ids}
            whole == {e \in touching :
                         /\ <<>> \notin EndpointNames(nodes, e.from)
                         /\ <<>> \notin EndpointNames(nodes, e.to)
                         /\ e.type # ""}
        IN /\ \A n \in named : Occurrences(ret.entities, EntityOf(n)) = 1
           /\ \A i \in DOMAIN ret.entities :
                  \E n \in named : ret.entities[i] = EntityOf(n)
           /\ \A e \in whole : \A t \in TriplesOf(nodes, e) :
                  Occurrences(ret.relations, t) = 1
           /\ \A j \in DOMAIN ret.relations :
                  \E e \in whole : ret.relations[j] \in TriplesOf(nodes, e)

\* searchNodes matched an entity without a name, both endpoints of one
\* relation and the target only of another
C11_Witness ==
    /\ call.op = "search_nodes"
    /\ \E n \in QueryNodes(nodes, ReadFilter(call)) : n.name = <<>>
    /\ Len(ret.relations) = 2
    /\ \E i, j \in DOMAIN ret.relations :
           /\ {ret.relations[i].source, ret.relations[i].target}
                  \subseteq {ret.entities[k].name : k \in DOMAIN ret.entities}
           /\ ret.relations[j].source
                  \notin {ret.entities[k].name : k \in DOMAIN ret.entities}

(***************************************************************************)
(* C12                                                                     *)
(***************************************************************************)
\* C12: readGraph, searchNodes, findNodes and openNodes never change the
\* store: entities, observation lists and relations are the same before and
\* after the call, for every argument.
C12_ReadsChangeNothing ==
    [][call'.op \in ReadOps => (nodes' = nodes /\ rels' = rels)]_vars

\* readGraph has run on a store with a relation and an entity without a name
\* (which the result leaves out) and the store still holds them
C12_Witness ==
    /\ call.op = "read_graph"
    /\ rels # {}
    /\ \E n \in nodes : n.name = <<>>
    /\ Len(ret.entities) < Cardinality(nodes)

(***************************************************************************)
(* C13                                                                     *)
(***************************************************************************)
ToolOps ==
    {"create_entities", "create_relations", "add_observations",
     "delete_entities", "delete_observations", "delete_relations"} \cup ReadOps

\* what the tool returns when nothing was raised
SuccessPayload(op, result) ==
    CASE op \in {"create_entities", "create_relations", "add_observations"} ->
             DumpsList(result)
      [] op = "delete_entities" -> <<"Entities deleted successfully">>
      [] op = "delete_observations" -> <<"Observations deleted successfully">>
      [] op = "delete_relations" -> <<"Relations deleted successfully">>
      [] OTHER -> DumpsDict(result)

\* C13: each of the ten graph tools ends by returning a string, never by an
\* exception; the string begins with "Error: " when the coercion of the input
\* failed or the store raised, and it is the success payload only when
\* nothing was raised.
C13_ToolsReturnErrorStrings ==
    call.op \in ToolOps =>
        /\ out.kind = "return"
        /\ exc # NoException => out.value[1] = "Error: "
        /\ exc = NoException => out.value = SuccessPayload(call.op, ret)
        /\ out.value[1] # "Error: " => exc = NoException

\* add_observations was given an addition without contents while the store
\* holds entities
C13_Witness ==
    /\ call.op = "add_observations"
    /\ exc = "ValidationError"
    /\ out = Returned(ErrorString("ValidationError"))
    /\ nodes # {}

\* the engine failed under search_nodes
C13_WitnessEngine ==
    /\ call.op = "search_nodes"
    /\ exc = "ServiceUnavailable"
    /\ out = Returned(ErrorString("ServiceUnavailable"))

(***************************************************************************)
(* C14                                                                     *)
(***************************************************************************)
AlreadyExistsError(e) == AlreadyExistsText \in Range(e.message)

\* C14: the construction of the store issues the index statement exactly
\* once, before any repository method is called; when the engine raises
\* nothing or an "already exists" error the construction succeeds, and any
\* other error leaves the constructor, so that there is no store object and
\* no repository call.
C14_IndexOnceAtConstruction ==
    /\ memory.state = "absent" =>
           (memory.indexQueries = 0 /\ call = Idle /\ nodes = {})
    /\ memory.state # "absent" => memory.indexQueries = 1
    /\ call # Idle => memory.state = "ready"
    /\ memory.state # "absent" =>
           IF memory.outcome = NoError \/ AlreadyExistsError(memory.outcome)
           THEN memory.state = "ready" /\ memory.raised = NoError
           ELSE memory.state = "failed" /\ memory.raised = memory.outcome

\* the engine answered "already exists", the store was built and has served
\* a search
C14_Witness ==
    /\ AlreadyExistsError(memory.outcome)
    /\ memory.state = "ready"
    /\ call.op = "search_nodes"
    /\ nodes # {}

\* the engine refused the connection and there is no store
C14_WitnessFailed ==
    /\ memory.state = "failed"
    /\ memory.raised.type = "ServiceUnavailable"

(***************************************************************************)
(* C15                                                                     *)
(***************************************************************************)
\* the strings listed for the entity by the deletions that name it
Listed(deletions, name) ==
    UNION {Range(deletions[i].observations) :
              i \in {j \in DOMAIN deletions : deletions[j].entityName = name}}

\* the list without the strings of S, the others in their order
Without(list, S) == SelectSeq(list, LAMBDA o : o \notin S)

\* C15: deleteObservations takes out of the list of every named entity every
\* occurrence of every string listed for it and nothing else: what remains
\* keeps its order; names, types, relations and the entities that are not
\* named are as before.
C15_DeleteObservationsExact ==
    [][call'.op = "delete_observations" =>
          /\ rels' = rels
          /\ NodeIds(nodes') = NodeIds(nodes)
          /\ \A n \in nodes : \A m \in nodes' :
                 m.id = n.id =>
                     /\ m.name = n.name
                     /\ m.type = n.type
                     /\ m.labels = n.labels
                     /\ m.observations =
                            Without(n.observations,
                                    Listed(call'.args, n.name))]_vars

\* one string was listed for an entity that is left with two different
\* strings; the other entity was named too and a relation is stored
C15_Witness ==
    /\ call.op = "delete_observations"
    /\ Len(call.args) = 2
    /\ call.args[1].entityName # call.args[2].entityName
    /\ Len(call.args[1].observations) = 1
    /\ rels # {}
    /\ \E n \in EntitiesNamed(nodes, call.args[1].entityName) :
           /\ Len(n.observations) = 2
           /\ n.observations[1] # n.observations[2]

(***************************************************************************)
(* C16                                                                     *)
(***************************************************************************)
\* the store as createEntities of one entity leaves an empty store
OnlyEntity(n) == nodes = {n} /\ rels = {}

\* C16 as stated: when the store holds one entity and nothing else,
\* searchNodes with the name of the entity returns exactly that entity, with
\* its type and observations; searchNodes with a query that matches no
\* stored entity returns no entity and no relation.
C16_SearchRoundTrip ==
    call.op = "search_nodes" =>
        /\ \A n \in nodes :
               (OnlyEntity(n) /\ call.args = n.name) =>
                   ret.entities = <<EntityOf(n)>>
        /\ QueryNodes(nodes, QueryFilter(call.args)) = {} =>
               ret = KnowledgeGraph(<<>>, <<>>)

\* a name made of words that the query parser reads as plain terms
PlainName(name) ==
    name # <<>> /\ \A w \in Range(name) : ~Prohibited(w)

\* C16 amended: when the store holds one entity and nothing else, and the
\* name of the entity is a non-empty text without query syntax, searchNodes
\* with that name returns exactly that entity, with its type and
\* observations; searchNodes with a query that matches no stored entity
\* returns no entity and no relation.
C16_SearchRoundTripPlainNames ==
    call.op = "search_nodes" =>
        /\ \A n \in nodes :
               (OnlyEntity(n) /\ PlainName(n.name) /\ call.args = n.name) =>
                   ret = KnowledgeGraph(<<EntityOf(n)>>, <<>>)
        /\ QueryNodes(nodes, QueryFilter(call.args)) = {} =>
               ret = KnowledgeGraph(<<>>, <<>>)

\* the only entity, which holds an observation, was searched by its name and
\* returned
C16_Witness ==
    /\ call.op = "search_nodes"
    /\ \E n \in nodes :
           /\ OnlyEntity(n)
           /\ PlainName(n.name)
           /\ call.args = n.name
           /\ n.observations # <<>>
           /\ ret.entities = <<EntityOf(n)>>

\* a query that matches nothing was run on a store with entities and a
\* relation
C16_WitnessNoMatch ==
    /\ call.op = "search_nodes"
    /\ rels # {}
    /\ QueryNodes(nodes, QueryFilter(call.args)) = {}
    /\ ret = KnowledgeGraph(<<>>, <<>>)

(***************************************************************************)
(* C17                                                                     *)
(***************************************************************************)
\* C17: a server run in development mode without a certificate file and a
\* key file ends up serving over HTTPS, with the self-signed certificate of
\* .ssl in place.
C17_DevelopmentServesHttps ==
    ( /\ server.phase # "configured"
      /\ Truthy(server.development_mode)
      /\ ~Truthy(server.cert_file)
      /\ ~Truthy(server.key_file) )
    => ( /\ server.phase = "serving"
         /\ server.protocol = "https"
         /\ server.ssl = "fresh" )

\* what the run does in that case: it serves over HTTP and generates nothing
C17_DevelopmentServesHttp ==
    ( /\ server.phase # "configured"
      /\ ~(Truthy(server.cert_file) /\ Truthy(server.key_file)) )
    => ( /\ server.phase = "serving"
         /\ server.protocol = "http"
         /\ ~server.generated )

(***************************************************************************)
(* C18                                                                     *)
(***************************************************************************)
\* C18: when a statement of a createRelations call fails, the caller gets an
\* error, the entities and every edge stored before that statement are still
\* stored, among them the edges of the batch once an earlier statement of the
\* call has committed, and the call issues no statement after the failed one.
C18_StatementsCommitOnTheirOwn ==
    [][\A c \in Callers :
          /\ (~flight[c].failed /\ flight'[c].failed) =>
                 /\ flight'[c].state = "raised"
                 /\ flight'[c].log = Append(flight[c].log, flight[c].relations)
                 /\ exc' # NoException
                 /\ out' = Returned(ErrorString(exc'))
                 /\ nodes' = nodes
                 /\ rels \subseteq rels'
                 /\ Len(flight[c].log) >= 1 =>
                        \A i \in DOMAIN flight[c].relations :
                            ~MissingEndpoint(nodes, flight[c].relations[i]) =>
                                EdgesFor(nodes', rels',
                                         flight[c].relations[i]) # {}
          /\ flight[c].failed => flight'[c] \in {flight[c], IdleFlight}]_vars

\* the second statement of a call failed after the first one had stored an
\* edge
C18_Witness ==
    /\ flight["a"].state = "raised"
    /\ Len(flight["a"].relations) = 2
    /\ Len(flight["a"].log) = 2
    /\ exc = "ServiceUnavailable"
    /\ out = Returned(ErrorString(exc))
    /\ \E i \in 1..2 : EdgesFor(nodes, rels, flight["a"].relations[i]) # {}

\* the first statement of a call of two failed: the second one was not issued
C18_WitnessFirst ==
    /\ flight["a"].state = "raised"
    /\ Len(flight["a"].relations) = 2
    /\ Len(flight["a"].log) = 1
    /\ call.op = "create_relations"
    /\ ret = NoneValue

(***************************************************************************)
(* C19                                                                     *)
(***************************************************************************)
\* C19: whatever calls are made and however the statements of concurrent
\* createRelations calls interleave with them, every stored edge starts at a
\* stored entity and ends at a stored entity: the source and the target of
\* every relation are names of stored entities.
C19_NoDanglingEdges ==
    /\ \A e \in rels :
           /\ EndpointNames(nodes, e.from) # {}
           /\ EndpointNames(nodes, e.to) # {}
    /\ \A e \in rels : \A t \in TriplesOf(nodes, e) :
           /\ EntitiesNamed(nodes, t.source) # {}
           /\ EntitiesNamed(nodes, t.target) # {}

\* between the two statements of one createRelations call an endpoint of its
\* batch was deleted, while the loop of a second call is under way and an
\* edge is stored
C19_Witness ==
    /\ flight["a"].state = "running"
    /\ Len(flight["a"].relations) = 2
    /\ Len(flight["a"].log) = 1
    /\ flight["b"].state = "running"
    /\ call.op = "delete_entities"
    /\ \E i \in 1..2 : MissingEndpoint(nodes, flight["a"].relations[i])
    /\ rels # {}

(***************************************************************************)
(* C20                                                                     *)
(***************************************************************************)
\* C20: a createRelations call with N relations issues N statements, each
\* with the whole batch as its parameter; when no other call writes in
\* between, every statement after the first one leaves the store as it is;
\* the call returns its input, and with an empty input it returns the empty
\* list without having issued a statement.
C20_EveryStatementCarriesTheBatch ==
    [][\A c \in Callers :
          /\ ( /\ flight[c].state = "running"
               /\ flight'[c].log # flight[c].log ) =>
                 /\ flight'[c].log = Append(flight[c].log, flight[c].relations)
                 /\ Len(flight'[c].log) <= Len(flight[c].relations)
                 /\ Len(flight[c].log) >= 1 => nodes' = nodes /\ rels' = rels
          /\ ( /\ flight[c].state = "running"
               /\ flight'[c].state = "returned" ) =>
                 LET relations == flight[c].relations
                 IN /\ flight'[c].log =
                           [i \in 1..Len(relations) |-> relations]
                    /\ ret' = relations
                    /\ out' = Returned(DumpsList(relations))
                    /\ nodes' = nodes /\ rels' = rels
                    /\ Store = CreateRelationsQuery(Store, relations)
                    /\ relations = <<>> => flight'[c].log = <<>> /\ ret' = <<>>
      ]_vars

\* a call with two different relations has returned after two statements,
\* both edges are stored
C20_Witness ==
    /\ flight["a"].state = "returned"
    /\ Len(flight["a"].relations) = 2
    /\ flight["a"].relations[1] # flight["a"].relations[2]
    /\ flight["a"].log = <<flight["a"].relations, flight["a"].relations>>
    /\ \A i \in 1..2 :
           Cardinality(EdgesFor(nodes, rels, flight["a"].relations[i])) = 1

\* a call with no relation has returned the empty list, no statement issued
C20_WitnessEmpty ==
    /\ flight["a"].state = "returned"
    /\ flight["a"].relations = <<>>
    /\ flight["a"].log = <<>>
    /\ call.op = "create_relations"
    /\ ret = <<>>

(***************************************************************************)
(* C21                                                                     *)
(***************************************************************************)
EntityNames(graph) == {graph.entities[i].name : i \in DOMAIN graph.entities}

\* the relations of a result with an end that is not an entity of the result
OpenRelations(graph) ==
    {rel \in Range(graph.relations) :
        rel.source \notin EntityNames(graph)
        \/ rel.target \notin EntityNames(graph)}

\* C21: every relation of the graph readGraph returns has its source and its
\* target among the names of the entities of that graph.  (That searchNodes
\* and findNodes can return a relation with an end outside their entities is
\* shown by the states C21_Witness, C21_WitnessSearch and C21_WitnessFind.)
C21_ReadGraphIsClosed ==
    call.op = "read_graph" => OpenRelations(ret) = {}

\* readGraph returned a relation while an edge to a nameless entity is
\* stored, which it left out with that entity; on the same store a search
\* and a lookup by name return a relation whose other end they do not return
C21_Witness ==
    /\ call.op = "read_graph"
    /\ ret.relations # <<>>
    /\ \E e \in rels : <<>> \in EndpointNames(nodes, e.from)
                                 \cup EndpointNames(nodes, e.to)
    /\ OpenRelations(search_nodes(nodes, rels, <<"lee">>)) # {}
    /\ OpenRelations(find_nodes(nodes, rels, <<(<<"lee">>)>>)) # {}

\* searchNodes returned a relation whose other end is not in its entities
C21_WitnessSearch ==
    /\ call.op = "search_nodes"
    /\ OpenRelations(ret) # {}

\* findNodes returned a relation whose other end is not in its entities
C21_WitnessFind ==
    /\ call.op = "find_nodes"
    /\ OpenRelations(ret) # {}

(***************************************************************************)
(* C22                                                                     *)
(***************************************************************************)
BatchNames(entities) == {entities[i].name : i \in DOMAIN entities}

\* C22: createEntities keeps every stored node of a name of its batch, with
\* its identity and its name (its type and observations are the supplied
\* ones, and it gains the label of the type); it adds a node only for a name
\* that was not stored; every other entity is as before; and every edge is
\* as before, between the same two names: no edge of a re-created entity is
\* dropped.
C22_RecreateKeepsEdges ==
    [][call'.op = "create_entities" =>
          LET names == BatchNames(call'.args)
          IN /\ \A n \in nodes :
                    IF n.name \in names
                    THEN \E m \in nodes' : m.id = n.id /\ m.name = n.name
                    ELSE n \in nodes'
             /\ \A m \in nodes' :
                    \/ \E n \in nodes : n.id = m.id
                    \/ m.name \in names /\ EntitiesNamed(nodes, m.name) = {}
             /\ rels' = rels
             /\ \A e \in rels : /\ TriplesOf(nodes', e) = TriplesOf(nodes, e)
                                /\ TriplesOf(nodes', e) # {}
             /\ read_graph(nodes', rels').relations
                    = read_graph(nodes, rels).relations]_vars

\* an entity with an edge in and an edge out has been re-created with another
\* type; both edges and the other entity are stored as before
C22_Witness ==
    /\ call.op = "create_entities"
    /\ Len(call.args) = 1
    /\ \E n, o \in nodes :
           /\ n.name = call.args[1].name
           /\ n.type = call.args[1].type
           /\ n.labels # {"Memory", n.type}
           /\ o.name # n.name
           /\ \E e1, e2 \in rels : /\ e1.from = n.id /\ e1.to = o.id
                                   /\ e2.from = o.id /\ e2.to = n.id

====
